---- MODULE Spec2Model ----
(***************************************************************************)
(* Tariff calculation engine of sample_usage_data_month: the flat,        *)
(* time-of-use and tiered calculators, the bill comparison and the date   *)
(* range filter of project.py (v1), projectv2.py (v2) and projectv3.py    *)
(* (v3).                                                                   *)
(*                                                                         *)
(* Units: kWh are integers, rates are integer cents per kWh, money is in  *)
(* integer cents.  Timestamps are minutes since midnight of day 0.        *)
(* A Python dict is a sequence of [k, v] entries in insertion order.      *)
(* status tells what the program's dataset variable holds: "none" (None, *)
(* nothing uploaded), "loaded" (a frame whose timestamps are datetimes)   *)
(* or "unparsed" (a frame stored by an upload that failed afterwards).    *)
(***************************************************************************)
EXTENDS Integers, Sequences, FiniteSets, TLC

VARIABLES df, status, bills, args, ret, log, pc

vars == <<df, status, bills, args, ret, log, pc>>

(* ------------------------------ bounds -------------------------------- *)

MaxReadings == 2

MaxKWh == 2

MaxRate == 2

MaxFee == 2

Versions == {"v1", "v2", "v3"}

SeqsUpTo(S, n) == UNION {[1..k -> S] : k \in 0..n}

(* ------------------------- Python dict helpers ------------------------ *)

RECURSIVE SumSeq(_)
SumSeq(s) == IF s = <<>> THEN 0 ELSE Head(s) + SumSeq(Tail(s))

Keys(d) == [i \in 1..Len(d) |-> d[i].k]

Values(d) == [i \in 1..Len(d) |-> d[i].v]

HasKey(d, key) == \E i \in 1..Len(d) : d[i].k = key

(* d[key] of a key that is present *)
DictAt(d, key) == d[CHOOSE i \in 1..Len(d) : d[i].k = key].v

DictGet(d, key, default) ==
    IF HasKey(d, key)
    THEN d[CHOOSE i \in 1..Len(d) : d[i].k = key].v
    ELSE default

(* Mutant: a new key is put in front of the keys the dict has. *)
DictSet_Front(d, key, val) ==
    IF HasKey(d, key)
    THEN [i \in 1..Len(d) |-> IF d[i].k = key THEN [k |-> key, v |-> val] ELSE d[i]]
    ELSE <<[k |-> key, v |-> val]>> \o d

DictSet(d, key, val) ==
    IF HasKey(d, key)
    THEN [i \in 1..Len(d) |-> IF d[i].k = key THEN [k |-> key, v |-> val] ELSE d[i]]
    ELSE Append(d, [k |-> key, v |-> val])

SumValues(d) == SumSeq(Values(d))

(* ------------------------------ series -------------------------------- *)

MinutesPerDay == 24 * 60

(* A time of day h:m, in minutes. *)
HM(h, m) == h * 60 + m

TimeOfDay(ts) == ts % MinutesPerDay

KWhColumn(series) == [i \in 1..Len(series) |-> series[i].kWh]

SumKWh(series) == SumSeq(KWhColumn(series))

(* Python float(x) of a number keeps its value. *)
Float(x) == x

(* --------------------------- flatRateTariff --------------------------- *)

flatRateTariff_v1(series, flatRate, fixedFee) ==
    LET totalKWh == SumKWh(series)
        energyCost == totalKWh * flatRate
        totalBill == energyCost + fixedFee
    IN [totalKWh |-> totalKWh,
        breakdown |-> <<[k |-> "Energy Cost", v |-> energyCost]>>,
        fixedFee |-> fixedFee,
        totalBill |-> totalBill]

(* Mutant: the fixed fee is left out of the total. *)
flatRateTariff_v2_NoFee(series, rate, fixed) ==
    LET total == SumKWh(series)
        energy == total * rate
    IN [totalBill |-> energy,
        breakdown |-> <<[k |-> "Energy", v |-> energy],
                        [k |-> "Fixed Fee", v |-> fixed]>>]

flatRateTariff_v2(series, rate, fixed) ==
    LET total == SumKWh(series)
        energy == total * rate
    IN [totalBill |-> energy + fixed,
        breakdown |-> <<[k |-> "Energy", v |-> energy],
                        [k |-> "Fixed Fee", v |-> fixed]>>]

flatRateTariff_v3(series, flatRate, fixedFee) ==
    LET totalKWh == SumKWh(series)
        energyCost == totalKWh * flatRate
        breakdown == <<[k |-> "Energy", v |-> Float(energyCost)]>>
    IN [scheme |-> "Flat",
        totalBill |-> Float(energyCost + fixedFee),
        breakdown |-> breakdown,
        fixedFee |-> Float(fixedFee),
        totalKWh |-> Float(totalKWh)]

flatRateTariff(v, series, rate, fee) ==
    CASE v = "v1" -> flatRateTariff_v1(series, rate, fee)
      [] v = "v2" -> flatRateTariff_v2(series, rate, fee)
      [] v = "v3" -> flatRateTariff_v3(series, rate, fee)


(* ------------------------------ touTariff ------------------------------ *)

(* info["default"] present and true: the window is the default bucket. *)
IsDefault(info) == info.default

(* Mutant: the upper bound of a window is inclusive. *)
WindowMatches_InclusiveEnd(info, t) ==
    IF info.start < info.end
    THEN info.start <= t /\ t <= info.end
    ELSE t >= info.start \/ t <= info.end

(* The interval test of one non-default window on a time of day. *)
WindowMatches(info, t) ==
    IF info.start < info.end
    THEN info.start <= t /\ t < info.end
    ELSE t >= info.start \/ t < info.end

(* Mutant: no break, the last matching window wins. *)
RECURSIVE FirstMatch_Last(_, _, _)
FirstMatch_Last(touRates, j, t) ==
    IF j > Len(touRates) THEN 0
    ELSE LET later == FirstMatch_Last(touRates, j + 1, t)
         IN IF later # 0 THEN later
            ELSE IF ~touRates[j].v.default /\ WindowMatches(touRates[j].v, t) THEN j
            ELSE 0

(* The inner loop over touRates.items(): the index of the window at which  *)
(* the loop breaks, 0 when it runs to the end without a match.              *)
RECURSIVE FirstMatch(_, _, _)
FirstMatch(touRates, j, t) ==
    IF j > Len(touRates) THEN 0
    ELSE IF IsDefault(touRates[j].v) THEN FirstMatch(touRates, j + 1, t)
    ELSE IF WindowMatches(touRates[j].v, t) THEN j
    ELSE FirstMatch(touRates, j + 1, t)

(* Mutant: the second loop bills every window, default or not. *)
DefaultIndices_All(touRates) == [j \in 1..Len(touRates) |-> j]

(* The second loop, taken when applied is False: every default window. *)
DefaultIndices(touRates) ==
    SelectSeq([j \in 1..Len(touRates) |-> j], LAMBDA j : IsDefault(touRates[j].v))

(* Mutant: the default loop runs whether or not a window applied. *)
RowWindows_NoApplied(touRates, row) ==
    LET j == FirstMatch(touRates, 1, TimeOfDay(row.timestamp))
    IN IF j # 0 THEN <<j>> \o DefaultIndices(touRates) ELSE DefaultIndices(touRates)

(* The windows one row is billed to, in the order the row is billed. *)
RowWindows(touRates, row) ==
    LET j == FirstMatch(touRates, 1, TimeOfDay(row.timestamp))
    IN IF j # 0 THEN <<j>> ELSE DefaultIndices(touRates)

(* Mutant: the cost replaces what the period had accrued. *)
Accrue_Overwrite(breakdown, period, cost) == DictSet(breakdown, period, cost)

(* breakdown[period] = breakdown.get(period, 0) + kWh * info["rate"] *)
Accrue(breakdown, period, cost) ==
    DictSet(breakdown, period, DictGet(breakdown, period, 0) + cost)

RECURSIVE AccrueRow(_, _, _, _)
AccrueRow(breakdown, touRates, row, ws) ==
    IF ws = <<>> THEN breakdown
    ELSE AccrueRow(Accrue(breakdown, touRates[Head(ws)].k,
                          row.kWh * touRates[Head(ws)].v.rate),
                   touRates, row, Tail(ws))

RECURSIVE TouBreakdown(_, _, _)
TouBreakdown(breakdown, series, touRates) ==
    IF series = <<>> THEN breakdown
    ELSE TouBreakdown(AccrueRow(breakdown, touRates, Head(series),
                                RowWindows(touRates, Head(series))),
                      Tail(series), touRates)

(* The accruals of a call, row by row: which period was billed, at what    *)
(* rate, for what cost.                                                     *)
TouAccruals(series, touRates) ==
    [i \in 1..Len(series) |->
        LET ws == RowWindows(touRates, series[i])
        IN [n \in 1..Len(ws) |->
               [period |-> touRates[ws[n]].k,
                rate |-> touRates[ws[n]].v.rate,
                cost |-> series[i].kWh * touRates[ws[n]].v.rate]]]

touTariff_v1(series, touRates, fixedFee) ==
    LET breakdown == TouBreakdown(<<>>, series, touRates)
        total == SumValues(breakdown) + fixedFee
    IN [breakdown |-> breakdown, fixedFee |-> fixedFee, totalBill |-> total]

touTariff_v2(series, rates, fixed) ==
    LET breakdown == DictSet(TouBreakdown(<<>>, series, rates), "Fixed Fee", fixed)
        total == SumValues(breakdown)
    IN [totalBill |-> total, breakdown |-> breakdown]

touTariff_v3(series, touRates, fixedFee) ==
    LET breakdown_costs == DictSet(TouBreakdown(<<>>, series, touRates),
                                   "Fixed Fee", Float(fixedFee))
        total == SumValues(breakdown_costs)
    IN [scheme |-> "TOU",
        totalBill |-> Float(total),
        breakdown |-> [i \in 1..Len(breakdown_costs) |->
                          [k |-> breakdown_costs[i].k, v |-> Float(breakdown_costs[i].v)]],
        fixedFee |-> Float(fixedFee)]

touTariff(v, series, touRates, fee) ==
    CASE v = "v1" -> touTariff_v1(series, touRates, fee)
      [] v = "v2" -> touTariff_v2(series, touRates, fee)
      [] v = "v3" -> touTariff_v3(series, touRates, fee)

(* ----------------------------- tieredTariff ---------------------------- *)

(* A tier limit as the callers pass it: None, a number, or (v3's entry     *)
(* widgets) the text of a number, "" when the entry is blank.               *)
None == [kind |-> "none", num |-> 0, text |-> <<>>]

Num(n) == [kind |-> "num", num |-> n, text |-> <<>>]

Str(chars) == [kind |-> "str", num |-> 0, text |-> chars]

DigitChars == <<"0", "1", "2", "3", "4", "5", "6", "7", "8", "9">>

DigitVal(c) == (CHOOSE d \in 1..10 : DigitChars[d] = c) - 1

RECURSIVE ParseDigits(_, _)
ParseDigits(chars, acc) ==
    IF chars = <<>> THEN acc
    ELSE ParseDigits(Tail(chars), acc * 10 + DigitVal(Head(chars)))

(* float(limit) *)
ToFloat(limit) == IF limit.kind = "str" THEN ParseDigits(limit.text, 0) ELSE limit.num

(* Python truth value of a limit: None, 0 and "" are false. *)
Truthy(limit) ==
    CASE limit.kind = "none" -> FALSE
      [] limit.kind = "num" -> limit.num # 0
      [] limit.kind = "str" -> limit.text # <<>>

Min2(a, b) == IF a <= b THEN a ELSE b

TierLabel(i) == "Tier " \o ToString(i)

(* Mutant: remaining is not reduced by the usage a tier absorbed. *)
RECURSIVE TierLoop_v1_KeepRemaining(_, _, _, _, _, _)
TierLoop_v1_KeepRemaining(tiers, i, remaining, previousLimit, breakdown, cost) ==
    IF i > Len(tiers) THEN [breakdown |-> breakdown, cost |-> cost]
    ELSE LET limit == tiers[i].limit
             rate == tiers[i].rate
         IN IF limit.kind = "none" \/ remaining <= (limit.num - previousLimit)
            THEN [breakdown |-> Append(breakdown,
                                       [used |-> remaining, rate |-> rate,
                                        cost |-> remaining * rate]),
                  cost |-> cost + remaining * rate]
            ELSE LET used == limit.num - previousLimit
                 IN TierLoop_v1_KeepRemaining(tiers, i + 1, remaining, limit.num,
                                Append(breakdown,
                                       [used |-> used, rate |-> rate, cost |-> used * rate]),
                                cost + used * rate)

(* project.py: the loop over tiers from tier i on; breakdown is a list. *)
RECURSIVE TierLoop_v1(_, _, _, _, _, _)
TierLoop_v1(tiers, i, remaining, previousLimit, breakdown, cost) ==
    IF i > Len(tiers) THEN [breakdown |-> breakdown, cost |-> cost]
    ELSE LET limit == tiers[i].limit
             rate == tiers[i].rate
         IN IF limit.kind = "none" \/ remaining <= (limit.num - previousLimit)
            THEN LET used == remaining
                     tierCost == used * rate
                 IN [breakdown |-> Append(breakdown,
                                          [used |-> used, rate |-> rate, cost |-> tierCost]),
                     cost |-> cost + tierCost]
            ELSE LET used == limit.num - previousLimit
                     tierCost == used * rate
                 IN TierLoop_v1(tiers, i + 1, remaining - used, limit.num,
                                Append(breakdown,
                                       [used |-> used, rate |-> rate, cost |-> tierCost]),
                                cost + tierCost)

tieredTariff_v1(series, tiers, fixedFee) ==
    LET totalKWh == SumKWh(series)
        r == TierLoop_v1(tiers, 1, totalKWh, 0, <<>>, 0)
        totalBill == r.cost + fixedFee
    IN [totalKWh |-> totalKWh, breakdown |-> r.breakdown,
        fixedFee |-> fixedFee, totalBill |-> totalBill]

(* Mutant: a tier that fills up takes its whole limit, not the width of   *)
(* its band.                                                                *)
RECURSIVE TierLoop_v2_WholeLimit(_, _, _, _, _, _, _)
TierLoop_v2_WholeLimit(tiers, i, remaining, prev, breakdown, cost, usedLog) ==
    IF i > Len(tiers) THEN [breakdown |-> breakdown, cost |-> cost, used |-> usedLog]
    ELSE LET limit == tiers[i].limit
             rate == tiers[i].rate
         IN IF limit.kind = "none" \/ remaining <= (limit.num - prev)
            THEN [breakdown |-> DictSet(breakdown, TierLabel(i), remaining * rate),
                  cost |-> cost + remaining * rate,
                  used |-> Append(usedLog, remaining)]
            ELSE TierLoop_v2_WholeLimit(tiers, i + 1, remaining - limit.num, limit.num,
                                DictSet(breakdown, TierLabel(i), limit.num * rate),
                                cost + limit.num * rate, Append(usedLog, limit.num))

(* projectv2.py: the same loop; breakdown is a dict keyed "Tier i".  used   *)
(* records the usage each pass of the loop allocated.                       *)
RECURSIVE TierLoop_v2(_, _, _, _, _, _, _)
TierLoop_v2(tiers, i, remaining, prev, breakdown, cost, usedLog) ==
    IF i > Len(tiers) THEN [breakdown |-> breakdown, cost |-> cost, used |-> usedLog]
    ELSE LET limit == tiers[i].limit
             rate == tiers[i].rate
         IN IF limit.kind = "none" \/ remaining <= (limit.num - prev)
            THEN LET used == remaining
                     tierCost == used * rate
                 IN [breakdown |-> DictSet(breakdown, TierLabel(i), tierCost),
                     cost |-> cost + tierCost,
                     used |-> Append(usedLog, used)]
            ELSE LET used == limit.num - prev
                     tierCost == used * rate
                 IN TierLoop_v2(tiers, i + 1, remaining - used, limit.num,
                                DictSet(breakdown, TierLabel(i), tierCost),
                                cost + tierCost, Append(usedLog, used))

tieredTariff_v2(series, tiers, fixed) ==
    LET total == SumKWh(series)
        r == TierLoop_v2(tiers, 1, total, 0, <<>>, 0, <<>>)
        breakdown == DictSet(r.breakdown, "Fixed Fee", fixed)
    IN [totalBill |-> r.cost + fixed, breakdown |-> breakdown]

(* projectv3.py: the loop over tier_limits; i is the 1-based position. *)
RECURSIVE TierLoop_v3(_, _, _, _, _, _, _)
TierLoop_v3(tier_limits, tier_rates, i, remaining_usage, prev_limit, breakdown, usedLog) ==
    IF i > Len(tier_limits)
    THEN [breakdown |-> breakdown, remaining |-> remaining_usage, used |-> usedLog]
    ELSE LET limit == tier_limits[i]
             rate == Float(tier_rates[i])
             used == IF ~Truthy(limit)
                     THEN remaining_usage
                     ELSE Min2(remaining_usage, ToFloat(limit) - prev_limit)
             breakdown2 == DictSet(breakdown, TierLabel(i), used * rate)
             remaining2 == remaining_usage - used
             prev2 == IF Truthy(limit) THEN ToFloat(limit) ELSE prev_limit + used
         IN IF remaining2 <= 0
            THEN [breakdown |-> breakdown2, remaining |-> remaining2,
                  used |-> Append(usedLog, used)]
            ELSE TierLoop_v3(tier_limits, tier_rates, i + 1, remaining2, prev2,
                             breakdown2, Append(usedLog, used))

(* Mutant: the leftover is charged at the last rate there is, whether or  *)
(* not it is a rate beyond the limits.                                      *)
TierOverflow_v3_Always(r, tier_limits, tier_rates) ==
    IF r.remaining > 0 /\ Len(tier_rates) > 0
    THEN [breakdown |-> DictSet(r.breakdown, TierLabel(Len(tier_limits) + 1),
                                r.remaining * Float(tier_rates[Len(tier_rates)])),
          remaining |-> 0,
          used |-> Append(r.used, r.remaining)]
    ELSE r

(* If still usage left (beyond defined tiers), apply last rate. *)
TierOverflow_v3(r, tier_limits, tier_rates) ==
    IF r.remaining > 0 /\ Len(tier_rates) > Len(tier_limits)
    THEN [breakdown |-> DictSet(r.breakdown, TierLabel(Len(tier_limits) + 1),
                                r.remaining * Float(tier_rates[Len(tier_rates)])),
          remaining |-> 0,
          used |-> Append(r.used, r.remaining)]
    ELSE r

tieredTariff_v3(series, tier_limits, tier_rates, fixed_fee) ==
    LET total_usage == Float(SumKWh(series))
        r == TierOverflow_v3(TierLoop_v3(tier_limits, tier_rates, 1, total_usage, 0,
                                         <<>>, <<>>),
                             tier_limits, tier_rates)
        breakdown == DictSet(r.breakdown, "Fixed Fee", Float(fixed_fee))
        total_bill == SumValues(breakdown)
    IN [scheme |-> "Tiered", totalBill |-> total_bill, breakdown |-> breakdown,
        fixedFee |-> Float(fixed_fee), totalKWh |-> total_usage]

(* The usage each pass of the tier loop allocated, in tier order. *)
TierUsed(v, series, limits, rates) ==
    LET tiers == [i \in 1..Len(limits) |-> [limit |-> limits[i], rate |-> rates[i]]]
    IN CASE v = "v1" -> LET b == TierLoop_v1(tiers, 1, SumKWh(series), 0, <<>>, 0).breakdown
                        IN [i \in 1..Len(b) |-> b[i].used]
         [] v = "v2" -> TierLoop_v2(tiers, 1, SumKWh(series), 0, <<>>, 0, <<>>).used
         [] v = "v3" -> TierOverflow_v3(TierLoop_v3(limits, rates, 1,
                                                    Float(SumKWh(series)), 0, <<>>, <<>>),
                                        limits, rates).used

(* v1 and v2 take a list of {"limit", "rate"}; v3 takes the two lists. *)
tieredTariff(v, series, limits, rates, fee) ==
    LET tiers == [i \in 1..Len(limits) |-> [limit |-> limits[i], rate |-> rates[i]]]
    IN CASE v = "v1" -> tieredTariff_v1(series, tiers, fee)
         [] v = "v2" -> tieredTariff_v2(series, tiers, fee)
         [] v = "v3" -> tieredTariff_v3(series, limits, rates, fee)

(* ------------------------ the frame across calls ----------------------- *)

(* Mutant: flatRateTariff rescales the kWh column of the caller's frame.   *)
FrameAfter_InPlace(fn, frame) ==
    IF fn = "flat"
    THEN [i \in 1..Len(frame) |-> [frame[i] EXCEPT !.kWh = 2 * frame[i].kWh]]
    ELSE frame

(* The caller's frame after a calculator returns: the calculators read     *)
(* df["kWh"] and iterate df.iterrows(), v3's touTariff works on df.copy(); *)
(* none assigns to the frame it was given.                                  *)
FrameAfter(fn, frame) == frame

(* --------------------------- bill comparison --------------------------- *)

(* Mutant: a later key with an equal total replaces the best one. *)
RECURSIVE MinFrom_LastWins(_, _, _)
MinFrom_LastWins(d, i, best) ==
    IF i > Len(d) THEN best
    ELSE IF d[i].v.totalBill <= d[best].v.totalBill THEN MinFrom_LastWins(d, i + 1, i)
    ELSE MinFrom_LastWins(d, i + 1, best)

(* min(bills, key=lambda k: bills[k]["totalBill"]): the keys are visited   *)
(* in the mapping's order and a later key replaces the best one only when  *)
(* its total is smaller.                                                    *)
RECURSIVE MinFrom(_, _, _)
MinFrom(d, i, best) ==
    IF i > Len(d) THEN best
    ELSE IF d[i].v.totalBill < d[best].v.totalBill THEN MinFrom(d, i + 1, i)
    ELSE MinFrom(d, i + 1, best)

MinKey(d) == d[MinFrom(d, 2, 1)].k

(* Mutant: the difference is taken from the first bill of the mapping. *)
compareBills_DiffFromFirst(d) ==
    LET minScheme == MinKey(d)
        minValue == d[1].v.totalBill
    IN [cheapest |-> minScheme,
        lines |-> [i \in 1..Len(d) |->
                     [scheme |-> d[i].k,
                      total |-> d[i].v.totalBill,
                      diff |-> d[i].v.totalBill - minValue,
                      marked |-> d[i].k = minScheme]]]

(* project.py compareBills: the cheapest scheme and the printed lines. *)
compareBills(d) ==
    LET minScheme == MinKey(d)
        minValue == DictAt(d, minScheme).totalBill
    IN [cheapest |-> minScheme,
        lines |-> [i \in 1..Len(d) |->
                     [scheme |-> d[i].k,
                      total |-> d[i].v.totalBill,
                      diff |-> d[i].v.totalBill - minValue,
                      marked |-> d[i].k = minScheme]]]

(* projectv2.py calcComparison and projectv3.py calculate_and_compare,     *)
(* from the bills dict on: the cheapest scheme and the summary lines.       *)
calcComparison(d) ==
    LET cheapest == MinKey(d)
    IN [cheapest |-> cheapest,
        lines |-> [i \in 1..Len(d) |->
                     [scheme |-> d[i].k, total |-> d[i].v.totalBill,
                      marked |-> d[i].k = cheapest]]]

calculate_and_compare(d) ==
    LET cheapest == MinKey(d)
    IN [cheapest |-> cheapest,
        lines |-> [i \in 1..Len(d) |->
                     [scheme |-> d[i].k, total |-> d[i].v.totalBill,
                      marked |-> d[i].k = cheapest]]]

(* ----------------------------- range filter ---------------------------- *)

(* An instant finer than a minute: ts is minutes since midnight of day 0,  *)
(* us the microseconds past that minute.                                    *)
At(ts, us) == [ts |-> ts, us |-> us]

InstantOf(row) == At(row.timestamp, row.us)

(* a <= b on instants *)
Leq(a, b) == a.ts < b.ts \/ (a.ts = b.ts /\ a.us <= b.us)

(* project.py: mask = (timestamp >= startDate) & (timestamp <= endDate) *)
filterDataByDuration(series, startDate, endDate) ==
    SelectSeq(series, LAMBDA row : Leq(startDate, InstantOf(row))
                                   /\ Leq(InstantOf(row), endDate))

(* datetime.time.min is 00:00:00, datetime.time.max is 23:59:59.999999 *)
dt_time_min == At(HM(0, 0), 0)

dt_time_max == At(HM(23, 59), 59 * 1000000 + 999999)

(* x.date() *)
DateOf(x) == x.ts \div MinutesPerDay

(* datetime.combine(date, time) *)
Combine(date, time) ==
    [kind |-> "datetime", ts |-> date * MinutesPerDay + time.ts, us |-> time.us]

(* isinstance(x, datetime): true of datetime and of pandas Timestamp, false *)
(* of numpy datetime64.                                                      *)
IsDatetime(x) == x.kind = "datetime"

(* projectv3.py: a datetime bound is replaced by the first (start) or last  *)
(* (end) instant of its date, any other bound is used as it is.              *)
filter_by_duration(series, start_dt, end_dt) ==
    LET start_ts == IF IsDatetime(start_dt)
                    THEN Combine(DateOf(start_dt), dt_time_min) ELSE start_dt
        end_ts == IF IsDatetime(end_dt)
                  THEN Combine(DateOf(end_dt), dt_time_max) ELSE end_dt
    IN SelectSeq(series, LAMBDA row : Leq(start_ts, InstantOf(row))
                                      /\ Leq(InstantOf(row), end_ts))

(* Date text is <<d>> for the text of day d and <<>> for text that is not a *)
(* date.  strptime(text, "%Y-%m-%d") is midnight of the day.                 *)
getDate(text) == [kind |-> "datetime", ts |-> text[1] * MinutesPerDay, us |-> 0]

NoneDate == [kind |-> "none", ts |-> 0, us |-> 0]

parse_date(text) == IF text = <<>> THEN NoneDate ELSE getDate(text)

(* df["timestamp"].min() and .max(): pandas Timestamps *)
TimestampMin(series) ==
    LET i == CHOOSE i \in 1..Len(series) :
                 \A j \in 1..Len(series) : Leq(InstantOf(series[i]), InstantOf(series[j]))
    IN [kind |-> "datetime", ts |-> series[i].timestamp, us |-> series[i].us]

TimestampMax(series) ==
    LET i == CHOOSE i \in 1..Len(series) :
                 \A j \in 1..Len(series) : Leq(InstantOf(series[j]), InstantOf(series[i]))
    IN [kind |-> "datetime", ts |-> series[i].timestamp, us |-> series[i].us]

(* parse_date(entry) or df["timestamp"].min() *)
OrElse(x, y) == IF x.kind = "none" THEN y ELSE x

(* if dfFiltered.empty: warn and return; else go on with the selection *)
Selection(rows) ==
    [rows |-> rows, outcome |-> IF rows = <<>> THEN "no data in range" ELSE "selected"]

(* ------------------------------ states -------------------------------- *)

NoArgs == [fn |-> "none"]

NoRet == [scheme |-> "none"]

FlatTimestamps == {0, 2 * MinutesPerDay + 75}

FlatReadings == [timestamp : FlatTimestamps, kWh : 0..MaxKWh]

FlatSeries == SeqsUpTo(FlatReadings, MaxReadings)

InitFlat ==
    /\ df \in FlatSeries
    /\ status = "loaded"
    /\ bills = <<>>
    /\ args = NoArgs
    /\ ret = NoRet
    /\ log = <<>>
    /\ pc = "ready"

FlatCall(v, rate, fee) ==
    /\ pc = "ready"
    /\ args' = [fn |-> "flat", ver |-> v, rate |-> rate, fixedFee |-> fee]
    /\ ret' = flatRateTariff(v, df, rate, fee)
    /\ log' = <<>>
    /\ pc' = "done"
    /\ UNCHANGED <<df, status, bills>>

NextFlat == \E v \in Versions, rate \in 0..MaxRate, fee \in 0..MaxFee : FlatCall(v, rate, fee)

SpecFlat == InitFlat /\ [][NextFlat]_vars

(* Times of day, in minutes: 00:15, 06:59, 07:00, 21:59, 22:00, 23:30. *)
T0015 == HM(0, 15)
T0659 == HM(6, 59)
T0700 == HM(7, 0)
T2159 == HM(21, 59)
T2200 == HM(22, 0)
T2330 == HM(23, 30)

TouTimestamps == {T0015, T0659, T0700, T2159, T2200, MinutesPerDay + T2330}

TouReadings == [timestamp : TouTimestamps, kWh : {0, MaxKWh}]

TouSeries == SeqsUpTo(TouReadings, MaxReadings)

(* Plans: up to three windows, keyed as the callers key them. *)
PlanLabels == <<"Peak", "Off-Peak", "Shoulder">>

PlanRates == <<3, 1, 2>>

WindowShapes ==
    {[default |-> TRUE, start |-> 0, end |-> 0],
     [default |-> FALSE, start |-> T0700, end |-> T2200],
     [default |-> FALSE, start |-> T2200, end |-> T0700],
     [default |-> FALSE, start |-> T0700, end |-> T0700]}

MakePlan(shapes) ==
    [i \in 1..Len(shapes) |->
        [k |-> PlanLabels[i],
         v |-> [default |-> shapes[i].default, start |-> shapes[i].start,
                end |-> shapes[i].end, rate |-> PlanRates[i]]]]

TouPlans == {MakePlan(shapes) : shapes \in SeqsUpTo(WindowShapes, Len(PlanLabels))}

InitTou ==
    /\ df \in TouSeries
    /\ status = "loaded"
    /\ bills = <<>>
    /\ args = NoArgs
    /\ ret = NoRet
    /\ log = <<>>
    /\ pc = "ready"

TouCall(v, touRates, fee) ==
    /\ pc = "ready"
    /\ args' = [fn |-> "tou", ver |-> v, touRates |-> touRates, fixedFee |-> fee]
    /\ ret' = touTariff(v, df, touRates, fee)
    /\ log' = TouAccruals(df, touRates)
    /\ pc' = "done"
    /\ UNCHANGED <<df, status, bills>>

NextTou == \E v \in Versions, touRates \in TouPlans, fee \in {0, MaxFee} : TouCall(v, touRates, fee)

SpecTou == InitTou /\ [][NextTou]_vars

(* Tier plans: limits None, 0, 100, 300 in any order; rates per position. *)
TierKWh == {0, 50, 100, 150, 250}

TierReadings == [timestamp : {HM(18, 0)}, kWh : TierKWh]

TierSeries == SeqsUpTo(TierReadings, MaxReadings)

TierLimitValues == {None, Num(0), Num(100), Num(300)}

TierRateTables == {<<20, 30, 40>>, <<40, 30, 20>>}

(* The GUIs have three tier rows. *)
MaxTiers == 3

TierLimitLists == SeqsUpTo(TierLimitValues, MaxTiers)

(* The text a limit has in a v3 entry widget. *)
RECURSIVE Digits(_)
Digits(n) == IF n < 10 THEN <<DigitChars[n + 1]>>
             ELSE Append(Digits(n \div 10), DigitChars[(n % 10) + 1])

AsText(limit) == IF limit.kind = "none" THEN Str(<<>>) ELSE Str(Digits(limit.num))

InitTier ==
    /\ df \in TierSeries
    /\ status = "loaded"
    /\ bills = <<>>
    /\ args = NoArgs
    /\ ret = NoRet
    /\ log = <<>>
    /\ pc = "ready"

(* A call with as many rates as limits. *)
TierCall(v, limits, table, fee) ==
    /\ pc = "ready"
    /\ LET rates == SubSeq(table, 1, Len(limits))
       IN /\ args' = [fn |-> "tier", ver |-> v, limits |-> limits, rates |-> rates,
                      fixedFee |-> fee]
          /\ ret' = tieredTariff(v, df, limits, rates, fee)
          /\ log' = TierUsed(v, df, limits, rates)
    /\ pc' = "done"
    /\ UNCHANGED <<df, status, bills>>

(* v3 called with the limits as entry text, as compute_tier passes them. *)
TierCallText(limits, table, fee) ==
    /\ pc = "ready"
    /\ LET rates == SubSeq(table, 1, Len(limits))
           texts == [i \in 1..Len(limits) |-> AsText(limits[i])]
       IN /\ args' = [fn |-> "tier", ver |-> "v3", limits |-> texts, rates |-> rates,
                      fixedFee |-> fee]
          /\ ret' = tieredTariff("v3", df, texts, rates, fee)
          /\ log' = TierUsed("v3", df, texts, rates)
    /\ pc' = "done"
    /\ UNCHANGED <<df, status, bills>>

(* v3 called with one rate more than limits. *)
TierCallExtra(limits, table, fee) ==
    /\ pc = "ready"
    /\ Len(limits) < Len(table)
    /\ LET rates == SubSeq(table, 1, Len(limits) + 1)
       IN /\ args' = [fn |-> "tier", ver |-> "v3", limits |-> limits, rates |-> rates,
                      fixedFee |-> fee]
          /\ ret' = tieredTariff("v3", df, limits, rates, fee)
          /\ log' = TierUsed("v3", df, limits, rates)
    /\ pc' = "done"
    /\ UNCHANGED <<df, status, bills>>

NextTier ==
    \E limits \in TierLimitLists, table \in TierRateTables, fee \in {0, MaxFee} :
        \/ \E v \in Versions : TierCall(v, limits, table, fee)
        \/ TierCallText(limits, table, fee)
        \/ TierCallExtra(limits, table, fee)

SpecTier == InitTier /\ [][NextTier]_vars

(* Bill mappings: the keys calculateBills (v1) and the GUI handlers (v2,   *)
(* v3) produce, in their order, with totals in cents.                       *)
BillTotals == {7550, 8000, 8210}

KeyOrders ==
    {<<"Flat Rate">>, <<"TOU">>, <<"Tiered">>,
     <<"Flat Rate", "TOU">>, <<"Flat Rate", "Tiered">>, <<"TOU", "Tiered">>,
     <<"Flat Rate", "TOU", "Tiered">>, <<"Flat", "TOU", "Tiered">>}

GuiKeys == <<"Flat", "TOU", "Tiered">>

BillMappings ==
    UNION {{[i \in 1..Len(keys) |-> [k |-> keys[i], v |-> [totalBill |-> totals[i]]]] :
               totals \in [1..Len(keys) -> BillTotals]} : keys \in KeyOrders}

InitCompare ==
    /\ df = <<>>
    /\ status = "loaded"
    /\ bills \in BillMappings
    /\ args = NoArgs
    /\ ret = NoRet
    /\ log = <<>>
    /\ pc = "ready"

CompareCall(v) ==
    /\ pc = "ready"
    /\ v \in {"v2", "v3"} => Keys(bills) = GuiKeys
    /\ args' = [fn |-> "compare", ver |-> v]
    /\ ret' = CASE v = "v1" -> compareBills(bills)
                [] v = "v2" -> calcComparison(bills)
                [] v = "v3" -> calculate_and_compare(bills)
    /\ pc' = "done"
    /\ UNCHANGED <<df, status, bills, log>>

NextCompare == \E v \in Versions : CompareCall(v)

SpecCompare == InitCompare /\ [][NextCompare]_vars

(* Range filter: readings of three days, bounds given as datetimes (kind   *)
(* "datetime") or as numpy datetime64 values (kind "datetime64").           *)
Second59 == 59 * 1000000

FilterInstants ==
    {At(HM(0, 0), 0), At(HM(12, 0), 0), At(HM(23, 59), Second59),
     At(MinutesPerDay, 0), At(MinutesPerDay + HM(12, 0), 0)}

FilterReadings ==
    {[timestamp |-> x.ts, us |-> x.us, kWh |-> MaxKWh] : x \in FilterInstants}

FilterSeries == SeqsUpTo(FilterReadings, MaxReadings)

BoundInstants ==
    {At(HM(0, 0), 0), At(HM(10, 0), 0), At(HM(12, 0), 0),
     At(MinutesPerDay, 0), At(MinutesPerDay + HM(12, 0), 0)}

FilterBounds ==
    {[kind |-> k, ts |-> x.ts, us |-> x.us] :
        k \in {"datetime", "datetime64"}, x \in BoundInstants}

DateTexts == {<<0>>, <<1>>, <<2>>}

InitFilter ==
    /\ df \in FilterSeries
    /\ status = "loaded"
    /\ bills = <<>>
    /\ args = NoArgs
    /\ ret = NoRet
    /\ log = <<>>
    /\ pc = "ready"

(* The filter function of v1 or v3 called with two bounds. *)
FilterCall(v, start, end) ==
    /\ pc = "ready"
    /\ args' = [fn |-> "filter", ver |-> v, via |-> "call", start |-> start, end |-> end]
    /\ ret' = [rows |-> IF v = "v1" THEN filterDataByDuration(df, start, end)
                                    ELSE filter_by_duration(df, start, end),
               outcome |-> "returned"]
    /\ pc' = "done"
    /\ UNCHANGED <<df, status, bills, log>>

(* project.py billComparisonMenu and visualizationMenu: two dates are read  *)
(* with getDate and the frame is filtered between them.                      *)
FilterMenu_v1(startText, endText) ==
    /\ pc = "ready"
    /\ LET startDate == getDate(startText)
           endDate == getDate(endText)
       IN /\ args' = [fn |-> "filter", ver |-> "v1", via |-> "menu",
                      start |-> startDate, end |-> endDate]
          /\ ret' = Selection(filterDataByDuration(df, startDate, endDate))
    /\ pc' = "done"
    /\ UNCHANGED <<df, status, bills, log>>

(* projectv3.py compute_flat, compute_tou, compute_tier, calculate_and_     *)
(* compare: the dates of two entries, or the first and last timestamp of    *)
(* the frame when an entry holds no date (a frame with rows: an empty frame *)
(* has no first timestamp).                                                  *)
FilterMenu_v3(startText, endText) ==
    /\ pc = "ready"
    /\ (startText = <<>> \/ endText = <<>>) => Len(df) > 0
    /\ LET start == OrElse(parse_date(startText), TimestampMin(df))
           end == OrElse(parse_date(endText), TimestampMax(df))
       IN /\ args' = [fn |-> "filter", ver |-> "v3", via |-> "menu",
                      start |-> start, end |-> end]
          /\ ret' = Selection(filter_by_duration(df, start, end))
    /\ pc' = "done"
    /\ UNCHANGED <<df, status, bills, log>>

NextFilter ==
    \/ \E v \in {"v1", "v3"}, start \in FilterBounds, end \in FilterBounds :
          FilterCall(v, start, end)
    \/ \E startText \in DateTexts, endText \in DateTexts :
          FilterMenu_v1(startText, endText)
    \/ \E startText \in DateTexts \cup {<<>>}, endText \in DateTexts \cup {<<>>} :
          FilterMenu_v3(startText, endText)

SpecFilter == InitFilter /\ [][NextFilter]_vars

(* A session: the main loop of project.py (options 1-3) and the Calculate  *)
(* buttons of the GUIs call the calculators again and again on the frame   *)
(* that is loaded.  log is the history of the calls: arguments and Bill.    *)
MaxCalls == MaxReadings + 1

EngineReadings ==
    {[timestamp |-> T0700, kWh |-> 1],
     [timestamp |-> T2159, kWh |-> MaxKWh],
     [timestamp |-> MinutesPerDay + T2330, kWh |-> 1]}

EngineSeries == SeqsUpTo(EngineReadings, MaxReadings)

(* Peak, Off-Peak and the default Shoulder as the menus build them, and a  *)
(* plan of one window without a default.                                    *)
EnginePlans ==
    {MakePlan(<<[default |-> FALSE, start |-> T0700, end |-> T2200],
                [default |-> FALSE, start |-> T2200, end |-> T0700],
                [default |-> TRUE, start |-> 0, end |-> 0]>>),
     MakePlan(<<[default |-> FALSE, start |-> T0700, end |-> T2200]>>)}

EngineTiers == [limits |-> <<Num(MaxKWh), None>>, rates |-> <<20, 30>>]

InitEngine ==
    /\ df \in EngineSeries
    /\ status = "loaded"
    /\ bills = <<>>
    /\ args = NoArgs
    /\ ret = NoRet
    /\ log = <<>>
    /\ pc = "ready"

(* One program runs one version. *)
SameProgram(v) == log # <<>> => v = args.ver

Returned(a, r) ==
    /\ args' = a
    /\ ret' = r
    /\ log' = Append(log, [args |-> a, ret |-> r])
    /\ df' = FrameAfter(a.fn, df)
    /\ pc' = "done"
    /\ UNCHANGED <<status, bills>>

EngineFlat(v, rate, fee) ==
    /\ Len(log) < MaxCalls
    /\ SameProgram(v)
    /\ Returned([fn |-> "flat", ver |-> v, rate |-> rate, fixedFee |-> fee],
                flatRateTariff(v, df, rate, fee))

EngineTou(v, touRates, fee) ==
    /\ Len(log) < MaxCalls
    /\ SameProgram(v)
    /\ Returned([fn |-> "tou", ver |-> v, touRates |-> touRates, fixedFee |-> fee],
                touTariff(v, df, touRates, fee))

EngineTier(v, limits, rates, fee) ==
    /\ Len(log) < MaxCalls
    /\ SameProgram(v)
    /\ Returned([fn |-> "tier", ver |-> v, limits |-> limits, rates |-> rates,
                 fixedFee |-> fee],
                tieredTariff(v, df, limits, rates, fee))

NextEngine ==
    \E v \in Versions :
        \/ EngineFlat(v, MaxRate, MaxFee)
        \/ \E touRates \in EnginePlans : EngineTou(v, touRates, MaxFee)
        \/ EngineTier(v, EngineTiers.limits, EngineTiers.rates, MaxFee)

SpecEngine == InitEngine /\ [][NextEngine]_vars

(* The three programs as they run: project.py loads its frame at import    *)
(* and loops over the main menu; the GUIs start with no dataset and react   *)
(* to the buttons of their tabs.  log is the history of what happened:      *)
(* every calculator call with the series it was given, every warning,       *)
(* upload and error.  bills holds what each result frame shows.              *)
Cell(n) == [numeric |-> TRUE, value |-> n]

NotANumber == [numeric |-> FALSE, value |-> 0]

Noon(d) == d * MinutesPerDay + HM(12, 0)

FileRow(ts, cell) == [timestamp |-> ts, us |-> 0, kWh |-> cell]

(* A file on disk: whether it has the columns timestamp and kWh, whether   *)
(* its timestamps parse, and its rows.                                      *)
File(columns, dates, rows) == [columns |-> columns, dates |-> dates, rows |-> rows]

ReadableFiles ==
    {File(TRUE, TRUE, <<>>),
     File(TRUE, TRUE, <<FileRow(Noon(0), Cell(MaxKWh))>>),
     File(TRUE, TRUE, <<FileRow(T0700, Cell(1)),
                        FileRow(MinutesPerDay + T2330, Cell(MaxKWh))>>),
     File(TRUE, TRUE, <<FileRow(Noon(0), Cell(0 - 1))>>)}

UnparsedFile == File(TRUE, FALSE, <<FileRow(Noon(0), Cell(1))>>)

(* The sample file of the repository, which project.py reads from its URL *)
(* at import: it has rows and no negative reading.                         *)
SampleFiles ==
    {file \in ReadableFiles :
        /\ file.rows # <<>>
        /\ \A i \in 1..Len(file.rows) : file.rows[i].kWh.value >= 0}

(* The files the model offers to each program: project.py reads the sample *)
(* file, the GUIs read what the user picks.  A kWh column that is not       *)
(* numeric and a file without the columns are offered to projectv3.py       *)
(* only, the one program that handles them.                                 *)
FilesOf(v) ==
    CASE v = "v1" -> SampleFiles
      [] v = "v2" -> ReadableFiles \cup {UnparsedFile}
      [] v = "v3" -> ReadableFiles \cup
                       {UnparsedFile,
                        File(TRUE, TRUE, <<FileRow(Noon(0), NotANumber)>>),
                        File(FALSE, TRUE, <<>>)}

(* pd.read_csv: the rows as they are in the file *)
read_csv(file) ==
    [i \in 1..Len(file.rows) |->
        [timestamp |-> file.rows[i].timestamp, us |-> file.rows[i].us,
         kWh |-> file.rows[i].kWh.value]]

(* pd.to_numeric(errors="coerce").fillna(0.0) *)
to_numeric(cell) == IF cell.numeric THEN cell.value ELSE 0

(* to_datetime(errors="coerce"), dropna(subset=["timestamp"]), to_numeric *)
Cleaned(file) ==
    IF file.dates
    THEN [i \in 1..Len(file.rows) |->
             [timestamp |-> file.rows[i].timestamp, us |-> file.rows[i].us,
              kWh |-> to_numeric(file.rows[i].kWh)]]
    ELSE <<>>

(* The nine rows of load_demo_data, in hundredths of a kWh. *)
DemoData ==
    LET day == MinutesPerDay
    IN <<[timestamp |-> HM(0, 0), us |-> 0, kWh |-> 25],
         [timestamp |-> HM(1, 0), us |-> 0, kWh |-> 42],
         [timestamp |-> HM(2, 0), us |-> 0, kWh |-> 48],
         [timestamp |-> HM(3, 0), us |-> 0, kWh |-> 40],
         [timestamp |-> HM(4, 0), us |-> 0, kWh |-> 21],
         [timestamp |-> HM(5, 0), us |-> 0, kWh |-> 30],
         [timestamp |-> HM(18, 0), us |-> 0, kWh |-> 150],
         [timestamp |-> HM(19, 0), us |-> 0, kWh |-> 200],
         [timestamp |-> day + HM(20, 0), us |-> 0, kWh |-> 110]>>

(* What the entries of the tabs and the answers at the prompts hold. *)
AppPlan ==
    MakePlan(<<[default |-> FALSE, start |-> T0700, end |-> T2200],
               [default |-> FALSE, start |-> T2200, end |-> T0700],
               [default |-> TRUE, start |-> 0, end |-> 0]>>)

AppTiers == [limits |-> <<Num(1), Num(MaxKWh), None>>, rates |-> <<20, 30, 40>>]

AppRanges == {<<<<0>>, <<0>>>>, <<<<2>>, <<2>>>>}

BlankRange == <<<<>>, <<>>>>

Tariffs == {"flat", "tou", "tier"}

(* The call a menu option or a button makes with these inputs. *)
Calc(v, fn, series) ==
    CASE fn = "flat" -> flatRateTariff(v, series, MaxRate, MaxFee)
      [] fn = "tou" -> touTariff(v, series, AppPlan, MaxFee)
      [] fn = "tier" ->
            tieredTariff(v, series,
                         IF v = "v3"
                         THEN [i \in 1..Len(AppTiers.limits) |-> AsText(AppTiers.limits[i])]
                         ELSE AppTiers.limits,
                         AppTiers.rates, MaxFee)

Event(kind, fn, series) == [event |-> kind, fn |-> fn, series |-> series]

Call(fn, series) == Event("call", fn, series)

AllCalls(series) == <<Call("flat", series), Call("tou", series), Call("tier", series)>>

InitApp ==
    /\ \E v \in Versions :
          /\ args = [fn |-> "start", ver |-> v]
          /\ IF v = "v1"
             THEN /\ status = "loaded"
                  /\ \E file \in FilesOf(v) : df = read_csv(file)
             ELSE /\ status = "none"
                  /\ df = <<>>
    /\ bills = <<>>
    /\ ret = NoRet
    /\ log = <<>>
    /\ pc = "mainloop"

Running(v) == args.ver = v /\ Len(log) < MaxCalls

Step(fn, r, events, frames, data, st) ==
    /\ args' = [fn |-> fn, ver |-> args.ver]
    /\ ret' = r
    /\ log' = log \o events
    /\ bills' = frames
    /\ df' = data
    /\ status' = st
    /\ pc' = "mainloop"

(* Nothing changes but the history. *)
Only(fn, events) == Step(fn, ret, events, bills, df, status)

(* project.py, main: options 1, 2 and 3 *)
main_option(fn) ==
    /\ Running("v1")
    /\ Step("main", Calc("v1", fn, df), <<Call(fn, df)>>, bills, df, status)

billComparisonMenu(range) ==
    /\ Running("v1")
    /\ LET dfFiltered == Selection(filterDataByDuration(df, getDate(range[1]),
                                                        getDate(range[2])))
           results == <<[k |-> "Flat Rate", v |-> Calc("v1", "flat", dfFiltered.rows)],
                        [k |-> "TOU", v |-> Calc("v1", "tou", dfFiltered.rows)],
                        [k |-> "Tiered", v |-> Calc("v1", "tier", dfFiltered.rows)]>>
       IN IF dfFiltered.outcome = "no data in range"
          THEN Only("billComparisonMenu", <<Event("warning", "billComparisonMenu", <<>>)>>)
          ELSE Step("billComparisonMenu", compareBills(results),
                    AllCalls(dfFiltered.rows), bills, df, status)

visualizationMenu(range, fn) ==
    /\ Running("v1")
    /\ LET dfFiltered == Selection(filterDataByDuration(df, getDate(range[1]),
                                                        getDate(range[2])))
       IN IF dfFiltered.outcome = "no data in range"
          THEN Only("visualizationMenu", <<Event("warning", "visualizationMenu", <<>>)>>)
          ELSE Step("visualizationMenu", Calc("v1", fn, dfFiltered.rows),
                    <<Call(fn, dfFiltered.rows)>>, bills, df, status)

(* projectv2.py: the dialog is cancelled, or the file is read into the     *)
(* global and its timestamps are converted afterwards.                      *)
uploadData_cancel ==
    /\ Running("v2")
    /\ Only("uploadData", <<Event("cancel", "uploadData", <<>>)>>)

uploadData(file) ==
    /\ Running("v2")
    /\ IF file.dates
       THEN Step("uploadData", ret, <<Event("uploaded", "uploadData", <<>>)>>,
                 bills, read_csv(file), "loaded")
       ELSE Step("uploadData", ret, <<Event("error", "uploadData", <<>>)>>,
                 bills, read_csv(file), "unparsed")

(* row["timestamp"].time() of a timestamp that is still text raises *)
Raises(fn) == fn = "tou" /\ status = "unparsed" /\ df # <<>>

calcButton(fn) ==
    /\ Running("v2")
    /\ IF status = "none"
       THEN Only("calc", <<Event("warning", fn, <<>>)>>)
       ELSE IF Raises(fn)
            THEN Only("calc", <<Call(fn, df), Event("error", fn, <<>>)>>)
            ELSE LET bill == Calc("v2", fn, df)
                 IN Step("calc", bill, <<Call(fn, df)>>, DictSet(bills, fn, bill),
                         df, status)

calcComparisonButton ==
    /\ Running("v2")
    /\ IF status = "none"
       THEN Only("calcComparison", <<Event("warning", "compare", <<>>)>>)
       ELSE IF Raises("tou")
            THEN Only("calcComparison",
                      <<Call("flat", df), Call("tou", df), Event("error", "compare", <<>>)>>)
            ELSE LET d == <<[k |-> "Flat", v |-> Calc("v2", "flat", df)],
                            [k |-> "TOU", v |-> Calc("v2", "tou", df)],
                            [k |-> "Tiered", v |-> Calc("v2", "tier", df)]>>
                     shown == calcComparison(d)
                 IN Step("calcComparison", shown, AllCalls(df),
                         DictSet(bills, "compare", shown), df, status)

(* projectv3.py *)
upload_file_cancel ==
    /\ Running("v3")
    /\ Only("upload_file", <<Event("cancel", "upload_file", <<>>)>>)

upload_file(file) ==
    /\ Running("v3")
    /\ IF ~file.columns
       THEN Only("upload_file", <<Event("error", "upload_file", <<>>)>>)
       ELSE Step("upload_file", ret, <<Event("uploaded", "upload_file", <<>>)>>,
                 bills, Cleaned(file), "loaded")

load_demo_data ==
    /\ Running("v3")
    /\ Step("load_demo_data", ret, <<Event("uploaded", "load_demo_data", <<>>)>>,
            bills, DemoData, "loaded")

(* start = parse_date(entry) or df min, end = parse_date(entry) or df max, *)
(* df_sel = filter_by_duration(df, start, end).  On a frame without rows   *)
(* min and max are NaT and nothing is selected.                             *)
df_sel(range) ==
    IF df = <<>>
    THEN Selection(<<>>)
    ELSE Selection(filter_by_duration(df, OrElse(parse_date(range[1]), TimestampMin(df)),
                                      OrElse(parse_date(range[2]), TimestampMax(df))))

(* compute_flat puts the fee into the breakdown before it draws *)
Drawn(fn, result) ==
    IF fn = "flat"
    THEN [result EXCEPT !.breakdown = DictSet(result.breakdown, "Fixed Fee", MaxFee)]
    ELSE result

compute(fn, range) ==
    /\ Running("v3")
    /\ IF status = "none" \/ df_sel(range).outcome = "no data in range"
       THEN Only("compute", <<Event("warning", fn, <<>>)>>)
       ELSE LET result == Drawn(fn, Calc("v3", fn, df_sel(range).rows))
            IN Step("compute", result, <<Call(fn, df_sel(range).rows)>>,
                    DictSet(bills, fn, result), df, status)

calculate_and_compare_button(range) ==
    /\ Running("v3")
    /\ IF status = "none" \/ df_sel(range).outcome = "no data in range"
       THEN Only("calculate_and_compare", <<Event("warning", "compare", <<>>)>>)
       ELSE LET rows == df_sel(range).rows
                d == <<[k |-> "Flat", v |-> Drawn("flat", Calc("v3", "flat", rows))],
                       [k |-> "TOU", v |-> Calc("v3", "tou", rows)],
                       [k |-> "Tiered", v |-> Calc("v3", "tier", rows)]>>
                shown == calculate_and_compare(d)
            IN Step("calculate_and_compare", shown, AllCalls(rows),
                    DictSet(bills, "compare", shown), df, status)

NextApp ==
    \/ \E fn \in Tariffs : main_option(fn)
    \/ \E range \in AppRanges : billComparisonMenu(range)
    \/ \E range \in AppRanges, fn \in Tariffs : visualizationMenu(range, fn)
    \/ uploadData_cancel
    \/ \E file \in FilesOf("v2") : uploadData(file)
    \/ \E fn \in Tariffs : calcButton(fn)
    \/ calcComparisonButton
    \/ upload_file_cancel
    \/ \E file \in FilesOf("v3") : upload_file(file)
    \/ load_demo_data
    \/ \E fn \in Tariffs, range \in AppRanges \cup {BlankRange} : compute(fn, range)
    \/ \E range \in AppRanges \cup {BlankRange} : calculate_and_compare_button(range)

SpecApp == InitApp /\ [][NextApp]_vars

(* ============================== claims ================================= *)

Done(fn) == pc = "done" /\ args.fn = fn

(* The sum of the kWh of a series, by position. *)
RECURSIVE UsageUpTo(_, _)
UsageUpTo(series, n) == IF n = 0 THEN 0 ELSE series[n].kWh + UsageUpTo(series, n - 1)

TotalUsage(series) == UsageUpTo(series, Len(series))

(* C1: flatRateTariff of each version returns totalBill equal to (sum of *)
(* all kWh of the series) * rate + fixedFee.                              *)
C1_FlatTotal ==
    Done("flat") => ret.totalBill = TotalUsage(df) * args.rate + args.fixedFee

C1_Witness ==
    /\ Done("flat")
    /\ Len(df) = MaxReadings
    /\ TotalUsage(df) > MaxKWh
    /\ args.rate = MaxRate
    /\ args.fixedFee = MaxFee
    /\ ret.totalBill = TotalUsage(df) * MaxRate + MaxFee

(* ---- time-of-use ---- *)

Clock(i) == df[i].timestamp % (24 * 60)

Plan == args.touRates

NonDefaults == {j \in 1..Len(Plan) : ~Plan[j].v.default}

Defaults == {j \in 1..Len(Plan) : Plan[j].v.default}

BilledTo(i, j) == \E n \in 1..Len(log[i]) : log[i][n].period = Plan[j].k

(* The interval rule of the specification. *)
InWindow(j, t) ==
    LET s == Plan[j].v.start
        e == Plan[j].v.end
    IN \/ s < e /\ s <= t /\ t < e
       \/ s >= e /\ (t >= s \/ t < e)

LeastOf(S) == CHOOSE j \in S : \A k \in S : j <= k

(* C2: a non-default window that no earlier window has taken the reading *)
(* from bills it exactly when start <= t < end (start < end) or t >=      *)
(* start or t < end (start >= end); a 22:00-07:00 window takes 23:30,     *)
(* 00:15 and 06:59 and does not take 07:00 or 21:59.                      *)
C2_WindowRule ==
    Done("tou") =>
        \A i \in 1..Len(df) : \A j \in NonDefaults :
            (\A k \in NonDefaults : k < j => ~InWindow(k, Clock(i))) =>
                /\ BilledTo(i, j) <=> InWindow(j, Clock(i))
                /\ (Plan[j].v.start = HM(22, 0) /\ Plan[j].v.end = HM(7, 0)) =>
                      /\ Clock(i) \in {HM(23, 30), HM(0, 15), HM(6, 59)} => BilledTo(i, j)
                      /\ Clock(i) \in {HM(7, 0), HM(21, 59)} => ~BilledTo(i, j)

C2_Witness ==
    /\ Done("tou")
    /\ Len(df) = 2
    /\ Len(Plan) >= 1
    /\ ~Plan[1].v.default /\ Plan[1].v.start = HM(22, 0) /\ Plan[1].v.end = HM(7, 0)
    /\ df[1].timestamp = 24 * 60 + HM(23, 30) /\ BilledTo(1, 1)
    /\ df[2].timestamp = HM(7, 0) /\ ~BilledTo(2, 1)

Matching(i) == {j \in NonDefaults : InWindow(j, Clock(i))}

AccrualAt(i, j) ==
    [period |-> Plan[j].k, rate |-> Plan[j].v.rate, cost |-> df[i].kWh * Plan[j].v.rate]

(* C3: a reading inside more than one non-default window is billed once, *)
(* to the matching window declared first, at that window's rate.         *)
C3_FirstWindowWins ==
    Done("tou") =>
        \A i \in 1..Len(df) :
            Cardinality(Matching(i)) > 1 => log[i] = <<AccrualAt(i, LeastOf(Matching(i)))>>

C3_Witness ==
    /\ Done("tou")
    /\ \E i \in 1..Len(df) :
          /\ Matching(i) = {2, 3}
          /\ df[i].kWh > 0
          /\ log[i] = <<AccrualAt(i, 2)>>
          /\ DictGet(ret.breakdown, Plan[2].k, 0) = df[i].kWh * Plan[2].v.rate
          /\ ~HasKey(ret.breakdown, Plan[3].k)

RECURSIVE AccruedCost(_)
AccruedCost(n) ==
    IF n = 0 THEN 0
    ELSE SumSeq([m \in 1..Len(log[n]) |-> log[n][m].cost]) + AccruedCost(n - 1)

AccrualCount == SumSeq([i \in 1..Len(df) |-> Len(log[i])])

(* C4: with exactly one default window every reading is billed exactly   *)
(* once: as many accruals as readings, and the energy billed is the sum   *)
(* of those accruals.                                                      *)
C4_OneBucketPerReading ==
    (Done("tou") /\ Cardinality(Defaults) = 1) =>
        /\ \A i \in 1..Len(df) : Len(log[i]) = 1
        /\ AccrualCount = Len(df)
        /\ ret.totalBill - args.fixedFee = AccruedCost(Len(df))

C4_Witness ==
    /\ Done("tou")
    /\ Cardinality(Defaults) = 1
    /\ Len(df) = 2
    /\ Cardinality(Matching(1)) = 2
    /\ Matching(2) = {}
    /\ df[1].kWh > 0 /\ df[2].kWh > 0
    /\ AccrualCount = 2

(* What a reading is billed to when window j is set aside: the first     *)
(* other non-default window that matches it, else the default windows.   *)
BilledElsewhere(i, j) ==
    LET others == Matching(i) \ {j}
    IN IF others # {}
       THEN log[i] = <<AccrualAt(i, LeastOf(others))>>
       ELSE /\ Len(log[i]) = Cardinality(Defaults)
            /\ \A d \in Defaults : BilledTo(i, d)

(* C5 as stated: a single reading at a non-default window's end is never *)
(* billed to that window but to the next match or the default.            *)
C5_EndExclusive_AsStated ==
    (Done("tou") /\ Len(df) = 1 /\ df[1].kWh > 0) =>
        \A j \in NonDefaults :
            Clock(1) = Plan[j].v.end => ~BilledTo(1, j) /\ BilledElsewhere(1, j)

(* C5 amended: the same for every non-default window whose start differs *)
(* from its end (a window with start = end matches every time of day).   *)
C5_EndExclusive ==
    Done("tou") =>
        \A i \in 1..Len(df) : \A j \in NonDefaults :
            (Clock(i) = Plan[j].v.end /\ Plan[j].v.start # Plan[j].v.end) =>
                ~BilledTo(i, j) /\ BilledElsewhere(i, j)

C5_Witness ==
    /\ Done("tou")
    /\ Len(df) = 1
    /\ Len(Plan) = 3
    /\ NonDefaults = {1, 2} /\ Defaults = {3}
    /\ Plan[1].v.start = HM(22, 0) /\ Plan[1].v.end = HM(7, 0)
    /\ Plan[2].v.start = HM(7, 0) /\ Plan[2].v.end = HM(22, 0)
    /\ Clock(1) = HM(7, 0)
    /\ df[1].kWh > 0
    /\ log[1] = <<AccrualAt(1, 2)>>

(* C6: the Bill of touTariff, in each version, has a "Fixed Fee" entry   *)
(* equal to fixedFee in its breakdown, and totalBill is the sum of the    *)
(* breakdown values, which is the energy billed plus fixedFee (stated for *)
(* a series with usage, a plan with one default window and a fee > 0).    *)
C6_FixedFeeInBreakdown ==
    (Done("tou") /\ TotalUsage(df) > 0 /\ Cardinality(Defaults) = 1 /\ args.fixedFee > 0) =>
        /\ HasKey(ret.breakdown, "Fixed Fee")
        /\ DictGet(ret.breakdown, "Fixed Fee", 0) = args.fixedFee
        /\ ret.totalBill = SumValues(ret.breakdown)
        /\ ret.totalBill = AccruedCost(Len(df)) + args.fixedFee

(* ---- tiered ---- *)

(* A limit that stands for "unlimited": None, or a blank v3 entry. *)
Unlimited(limit) == limit.kind = "none" \/ (limit.kind = "str" /\ limit.text = <<>>)

LimitValue(limit) == IF limit.kind = "str" THEN ParseDigits(limit.text, 0) ELSE limit.num

(* The cascade of the specification from tier i on: the (used, cost) of  *)
(* each tier it reaches.                                                   *)
RECURSIVE Cascade(_, _, _, _, _)
Cascade(limits, rates, i, remaining, previousLimit) ==
    IF i > Len(limits) THEN <<>>
    ELSE IF Unlimited(limits[i]) \/ remaining <= LimitValue(limits[i]) - previousLimit
    THEN <<[used |-> remaining, cost |-> remaining * rates[i]]>>
    ELSE LET used == LimitValue(limits[i]) - previousLimit
         IN <<[used |-> used, cost |-> used * rates[i]]>>
            \o Cascade(limits, rates, i + 1, remaining - used, LimitValue(limits[i]))

Reference == Cascade(args.limits, args.rates, 1, TotalUsage(df), 0)

(* The per-tier costs a Bill reports, in tier order. *)
TierCosts ==
    IF args.ver = "v1"
    THEN [i \in 1..Len(ret.breakdown) |-> ret.breakdown[i].cost]
    ELSE [i \in 1..(Len(ret.breakdown) - 1) |-> ret.breakdown[i].v]

EqualLengths == Len(args.rates) = Len(args.limits)

(* C7: for every total and tier list the per-tier costs and the energy   *)
(* part of totalBill of v1, v2 and v3 equal the cascade's allocation.     *)
C7_CascadeAllocation ==
    (Done("tier") /\ EqualLengths) =>
        /\ TierCosts = [i \in 1..Len(Reference) |-> Reference[i].cost]
        /\ log = [i \in 1..Len(Reference) |-> Reference[i].used]
        /\ ret.totalBill - args.fixedFee =
              SumSeq([i \in 1..Len(Reference) |-> Reference[i].cost])

ExampleTiers ==
    /\ args.rates = <<20, 30, 40>>
    /\ \/ args.limits = <<Num(100), Num(300), None>>
       \/ args.limits = <<Str(<<"1", "0", "0">>), Str(<<"3", "0", "0">>), Str(<<>>)>>
    /\ TotalUsage(df) = 250

(* C8 as stated: tiers 100 at 0.20, 300 at 0.30, unlimited at 0.40 and   *)
(* 250 kWh give three tier entries, 100 kWh for 20.00, 150 kWh for 45.00  *)
(* and 0 kWh for 0.00, and totalBill = 65.00 + fixedFee.                  *)
C8_Example_AsStated ==
    (Done("tier") /\ ExampleTiers) =>
        /\ log = <<100, 150, 0>>
        /\ TierCosts = <<2000, 4500, 0>>
        /\ ret.totalBill = 6500 + args.fixedFee

(* C8 amended: the same input gives two tier entries, Tier 1 with 100 kWh *)
(* for 20.00 and Tier 2 with 150 kWh for 45.00, no entry for Tier 3, and  *)
(* totalBill = 65.00 + fixedFee.                                           *)
C8_Example ==
    (Done("tier") /\ ExampleTiers) =>
        /\ log = <<100, 150>>
        /\ TierCosts = <<2000, 4500>>
        /\ args.ver # "v1" => Keys(ret.breakdown) = <<"Tier 1", "Tier 2", "Fixed Fee">>
        /\ ret.totalBill = 6500 + args.fixedFee

C8_Witness ==
    /\ Done("tier")
    /\ ExampleTiers
    /\ args.ver = "v3"
    /\ args.limits[1].kind = "str"
    /\ args.fixedFee = MaxFee
    /\ Len(df) = 2
    /\ ret.totalBill = 6500 + MaxFee

Ascending(limits) ==
    /\ \A i \in 1..Len(limits) : limits[i].kind = "num" /\ limits[i].num > 0
    /\ \A i \in 1..(Len(limits) - 1) : limits[i].num < limits[i + 1].num

(* C9: with ascending limits, no unlimited tier and a total above the    *)
(* last limit, all of the consumption is charged: the usage the tiers     *)
(* bill adds up to the total (the code never ends in an error).           *)
C9_ExcessCharged ==
    (/\ Done("tier")
     /\ EqualLengths
     /\ Len(args.limits) > 0
     /\ Ascending(args.limits)
     /\ TotalUsage(df) > args.limits[Len(args.limits)].num) =>
        SumSeq(log) = TotalUsage(df)

(* ---- comparison ---- *)

Total(i) == bills[i].v.totalBill

(* C10: the cheapest scheme has a minimal totalBill, and among schemes   *)
(* with the minimal totalBill it is the first of the mapping's order.     *)
C10_CheapestFirstMinimum ==
    Done("compare") =>
        \E i \in 1..Len(bills) :
            /\ ret.cheapest = bills[i].k
            /\ \A j \in 1..Len(bills) : Total(i) <= Total(j)
            /\ \A j \in 1..(i - 1) : Total(j) > Total(i)

C10_Witness ==
    /\ Done("compare")
    /\ Len(bills) = 3
    /\ Total(2) = Total(3)
    /\ Total(2) < Total(1)
    /\ ret.cheapest = bills[2].k

CheapestTotal == DictAt(bills, ret.cheapest).totalBill

ExampleBills == <<8000, 7550, 8210>>

(* C11: compareBills reports for every scheme of the mapping the delta    *)
(* totalBill - (the cheapest scheme's totalBill): 0 for the cheapest,     *)
(* never negative; for Flat 80.00, TOU 75.50, Tiered 82.10 the cheapest   *)
(* is TOU and the deltas are 4.50, 0.00 and 6.60.                          *)
C11_Deltas ==
    (Done("compare") /\ args.ver = "v1") =>
        /\ Len(ret.lines) = Len(bills)
        /\ \A i \in 1..Len(bills) :
              /\ ret.lines[i].scheme = bills[i].k
              /\ ret.lines[i].diff = Total(i) - CheapestTotal
              /\ ret.lines[i].diff >= 0
              /\ ret.lines[i].marked => ret.lines[i].diff = 0
        /\ [i \in 1..Len(bills) |-> Total(i)] = ExampleBills =>
              /\ ret.cheapest = "TOU"
              /\ [i \in 1..3 |-> ret.lines[i].diff] = <<450, 0, 660>>

C11_Witness ==
    /\ Done("compare")
    /\ args.ver = "v1"
    /\ Keys(bills) = <<"Flat", "TOU", "Tiered">>
    /\ [i \in 1..Len(bills) |-> Total(i)] = ExampleBills
    /\ ret.cheapest = "TOU"
    /\ [i \in 1..3 |-> ret.lines[i].diff] = <<450, 0, 660>>

(* ---- range filter ---- *)

Within(row) == Leq(args.start, InstantOf(row)) /\ Leq(InstantOf(row), args.end)

(* A bound that carries a time of day, and one that is a date only. *)
CarriesTime(x) == TimeOfDay(x.ts) # 0 \/ x.us # 0

DateOnly(x) == x.kind = "datetime" /\ ~CarriesTime(x)

(* C12: the range filter of v1 and of v3 returns every reading with       *)
(* start <= t <= end, those at start and at end included, and for bounds  *)
(* that carry a time-of-day it returns no other reading.                   *)
C12_InclusiveRange ==
    (Done("filter") /\ args.via = "call") =>
        /\ SelectSeq(ret.rows, Within) = SelectSeq(df, Within)
        /\ (CarriesTime(args.start) /\ CarriesTime(args.end)) =>
               ret.rows = SelectSeq(df, Within)

OnDays(row) ==
    /\ DateOf(args.start) <= row.timestamp \div MinutesPerDay
    /\ row.timestamp \div MinutesPerDay <= DateOf(args.end)

(* C13: with a start and an end that are dates without a time-of-day the  *)
(* filter (v1 as its menus call it, v3's function) returns every reading  *)
(* from 00:00:00 of the start date through the end of the end date, so     *)
(* start = end = D returns every reading of day D.                         *)
C13_WholeDays ==
    (/\ Done("filter")
     /\ args.via = "menu" \/ args.ver = "v3"
     /\ DateOnly(args.start) /\ DateOnly(args.end)) =>
        ret.rows = SelectSeq(df, OnDays)

(* ---- error handling ---- *)

(* What a call handed back is a Bill (the calculators have no other kind  *)
(* of result and no raise statement).                                      *)
IsBill(r) == "totalBill" \in DOMAIN r

(* C14: a calculator invoked on a series with zero readings does not      *)
(* return a Bill whose totalBill is the fixed fee; it returns a no-data   *)
(* result or fails.                                                        *)
C14_EmptySeriesRefused ==
    (pc = "done" /\ args.fn \in {"flat", "tou", "tier"} /\ Len(df) = 0) =>
        ~(IsBill(ret) /\ ret.totalBill = args.fixedFee)

(* The kWh of the readings that no window was billed for. *)
UnbilledKWh == SumSeq([i \in 1..Len(df) |-> IF log[i] = <<>> THEN df[i].kWh ELSE 0])

BillFields == {"scheme", "totalKWh", "breakdown", "fixedFee", "totalBill"}

(* C15: with no default window and a reading that matches no window, the  *)
(* result of touTariff carries the unmatched usage as a count of unbilled *)
(* kWh, beside the fields of the Bill.                                     *)
C15_UnmatchedSurfaced ==
    (Done("tou") /\ Defaults = {} /\ NonDefaults # {} /\ UnbilledKWh > 0) =>
        \E f \in DOMAIN ret \ BillFields : ret[f] = UnbilledKWh

(* C16: a plan with more than one default window is rejected before any   *)
(* Bill is returned, and no reading is billed to more than one default.   *)
C16_MultipleDefaultsRejected ==
    (Done("tou") /\ Cardinality(Defaults) > 1 /\ TotalUsage(df) > 0) =>
        /\ ~IsBill(ret)
        /\ \A i \in 1..Len(df) : Cardinality({d \in Defaults : BilledTo(i, d)}) <= 1

(* C17: a tier list with an unlimited tier followed by further tiers is   *)
(* rejected before any Bill is returned.                                   *)
C17_UnlimitedNotLastRejected ==
    (/\ Done("tier")
     /\ TotalUsage(df) > 0
     /\ \A i \in 1..Len(args.limits) :
           Unlimited(args.limits[i]) \/ LimitValue(args.limits[i]) > 0
     /\ \E i \in 1..(Len(args.limits) - 1) : Unlimited(args.limits[i])) =>
        ~IsBill(ret)

(* ---- sessions of calls ---- *)

SameCall(a, b) == a.fn = b.fn /\ a = b

ListBreakdown(c) == c.args.fn = "tier" /\ c.args.ver = "v1"

BreakdownCosts(c) ==
    IF ListBreakdown(c)
    THEN [n \in 1..Len(c.ret.breakdown) |-> c.ret.breakdown[n].cost]
    ELSE Values(c.ret.breakdown)

HasFeeEntry(c) == ~ListBreakdown(c) /\ HasKey(c.ret.breakdown, "Fixed Fee")

FeeInBreakdown(c) ==
    HasFeeEntry(c) /\ c.ret.totalBill = SumSeq(BreakdownCosts(c))

FeeBesideBreakdown(c) ==
    ~HasFeeEntry(c) /\ c.ret.totalBill = SumSeq(BreakdownCosts(c)) + c.args.fixedFee

(* C19: within one program version the calculators use one fixed-fee      *)
(* convention: all put a "Fixed Fee" entry in breakdown with totalBill =  *)
(* sum(breakdown), or none does and totalBill = sum(breakdown) + fixedFee. *)
C19_UniformFeeConvention ==
    TotalUsage(df) > 0 =>
        \/ \A i \in 1..Len(log) : FeeInBreakdown(log[i])
        \/ \A i \in 1..Len(log) : FeeBesideBreakdown(log[i])

(* The Bill of the call a on another series. *)
Recompute(a, series) ==
    CASE a.fn = "flat" -> flatRateTariff(a.ver, series, a.rate, a.fixedFee)
      [] a.fn = "tou" -> touTariff(a.ver, series, a.touRates, a.fixedFee)
      [] a.fn = "tier" -> tieredTariff(a.ver, series, a.limits, a.rates, a.fixedFee)

Permuted(series, p) == [i \in 1..Len(series) |-> series[p[i]]]

(* The same per-label costs, whatever the order of the labels. *)
SameCosts(a, b1, b2) ==
    IF a.fn = "tier" /\ a.ver = "v1"
    THEN b1 = b2
    ELSE /\ {b1[n].k : n \in 1..Len(b1)} = {b2[n].k : n \in 1..Len(b2)}
         /\ Len(b1) = Len(b2)
         /\ \A n \in 1..Len(b1) : DictAt(b2, b1[n].k) = b1[n].v

(* C20: the totalBill and the per-label costs of the Bill of each         *)
(* calculator are the same for every permutation of the readings.          *)
C20_OrderIrrelevant ==
    pc = "done" =>
        \A p \in Permutations(1..Len(df)) :
            LET other == Recompute(args, Permuted(df, p))
            IN /\ other.totalBill = ret.totalBill
               /\ SameCosts(args, other.breakdown, ret.breakdown)

C20_Witness ==
    /\ pc = "done"
    /\ args.fn = "tou"
    /\ Len(df) = 2
    /\ df[1].kWh # df[2].kWh
    /\ Len(ret.breakdown) = 3
    /\ \E p \in Permutations(1..2) :
          LET other == Recompute(args, Permuted(df, p))
          IN /\ other.breakdown # ret.breakdown
             /\ other.totalBill = ret.totalBill

(* ---- order of the time-of-use breakdown ---- *)

(* The periods billed, reading after reading, in the order of billing. *)
RECURSIVE BilledPeriods(_)
BilledPeriods(n) ==
    IF n = 0 THEN <<>>
    ELSE BilledPeriods(n - 1) \o [m \in 1..Len(log[n]) |-> log[n][m].period]

(* A sequence without the later occurrences of its elements. *)
RECURSIVE FirstOccurrences(_, _)
FirstOccurrences(s, seen) ==
    IF s = <<>> THEN <<>>
    ELSE IF Head(s) \in seen THEN FirstOccurrences(Tail(s), seen)
    ELSE <<Head(s)>> \o FirstOccurrences(Tail(s), seen \cup {Head(s)})

FirstBilledOrder == FirstOccurrences(BilledPeriods(Len(df)), {})

DeclaredOrder == SelectSeq(Keys(Plan), LAMBDA k : HasKey(ret.breakdown, k))

(* C21: the energy labels of touTariff's breakdown are in the order in    *)
(* which each was first billed while the readings are iterated in series  *)
(* order; in v2 and v3 the "Fixed Fee" entry comes after all of them.      *)
C21_FirstBilledOrder ==
    Done("tou") =>
        Keys(ret.breakdown) =
            IF args.ver = "v1" THEN FirstBilledOrder
            ELSE FirstBilledOrder \o <<"Fixed Fee">>

C21_Witness ==
    /\ Done("tou")
    /\ args.ver = "v3"
    /\ Len(df) = 2
    /\ Keys(Plan) = <<"Peak", "Off-Peak">>
    /\ Keys(ret.breakdown) = <<"Off-Peak", "Peak", "Fixed Fee">>
    /\ DeclaredOrder = <<"Peak", "Off-Peak">>

(* ---- default fallback ---- *)

Without(series, i) == SubSeq(series, 1, i - 1) \o SubSeq(series, i + 1, Len(series))

(* C22: a reading that matches no non-default window is billed to the     *)
(* default window, at its rate, when the plan has one; when the plan has  *)
(* no default window the reading changes no bucket and adds nothing to    *)
(* totalBill: the Bill is the Bill of the series without that reading.     *)
C22_DefaultFallback ==
    Done("tou") =>
        \A i \in 1..Len(df) :
            Matching(i) = {} =>
                /\ \A d \in Defaults :
                      \E n \in 1..Len(log[i]) : log[i][n] = AccrualAt(i, d)
                /\ Cardinality(Defaults) = 1 => Len(log[i]) = 1
                /\ Defaults = {} =>
                      /\ log[i] = <<>>
                      /\ ret = touTariff(args.ver, Without(df, i), Plan, args.fixedFee)

C22_Witness ==
    /\ Done("tou")
    /\ Defaults = {}
    /\ Len(Plan) = 2
    /\ Len(df) = 2
    /\ Matching(1) = {} /\ df[1].kWh > 0
    /\ Matching(2) # {} /\ df[2].kWh > 0
    /\ ret.totalBill - args.fixedFee = df[2].kWh * Plan[LeastOf(Matching(2))].v.rate

(* ---- v3 overflow ---- *)

(* The usage the passes over tier_limits allocated, and what they left. *)
LoopUsed == SubSeq(log, 1, Min2(Len(log), Len(args.limits)))

Leftover == TotalUsage(df) - SumSeq(LoopUsed)

LoopCost == SumSeq([i \in 1..Len(LoopUsed) |-> LoopUsed[i] * args.rates[i]])

OverflowLabel == "Tier " \o ToString(Len(args.limits) + 1)

(* C23: in v3 the usage left over after all entries of tier_limits is     *)
(* charged at the last entry of tier_rates, under the label Tier          *)
(* (len(tier_limits)+1), exactly when tier_rates is longer than           *)
(* tier_limits; otherwise the leftover adds nothing to totalBill.          *)
C23_OverflowOnlyWithExtraRate ==
    (Done("tier") /\ args.ver = "v3") =>
        IF Leftover > 0 /\ Len(args.rates) > Len(args.limits)
        THEN /\ HasKey(ret.breakdown, OverflowLabel)
             /\ DictAt(ret.breakdown, OverflowLabel) = Leftover * args.rates[Len(args.rates)]
             /\ ret.totalBill = LoopCost + DictAt(ret.breakdown, OverflowLabel) + args.fixedFee
        ELSE /\ ~HasKey(ret.breakdown, OverflowLabel)
             /\ ret.totalBill = LoopCost + args.fixedFee

C23_Witness ==
    /\ Done("tier")
    /\ args.ver = "v3"
    /\ args.limits = <<Num(100)>>
    /\ args.rates = <<20, 30>>
    /\ TotalUsage(df) = 150
    /\ Keys(ret.breakdown) = <<"Tier 1", "Tier 2", "Fixed Fee">>
    /\ DictAt(ret.breakdown, "Tier 2") = 50 * 30
    /\ ret.totalBill = 100 * 20 + 50 * 30 + args.fixedFee

(* The calculator calls in the history of a running program. *)
CallsMade == SelectSeq(log, LAMBDA e : e.event = "call")

(* C24: in every path of the programs (main options 1-5 of project.py,    *)
(* the calc handlers of projectv2.py, the compute handlers and            *)
(* calculate_and_compare of projectv3.py) no calculator is invoked on a   *)
(* series with zero readings.                                              *)
C24_NeverOnEmptySeries ==
    pc = "mainloop" => \A i \in 1..Len(CallsMade) : CallsMade[i].series # <<>>

NonNegative(series) == \A i \in 1..Len(series) : series[i].kWh >= 0

(* C25: the dataset a program holds after its load or upload, and every   *)
(* series that reaches a calculator, has all kWh >= 0.                     *)
C25_ReadingsNonNegative ==
    pc = "mainloop" =>
        /\ status # "none" => NonNegative(df)
        /\ \A i \in 1..Len(CallsMade) : NonNegative(CallsMade[i].series)

(* An upload or the demo button has reported success. *)
Uploaded == \E i \in 1..Len(log) : log[i].event = "uploaded"

Buttons == {"calc", "calcComparison", "compute", "calculate_and_compare"}

(* C26: in the GUI programs a compute or compare action taken before a    *)
(* successful upload invokes no calculator: it ends with a warning and     *)
(* leaves the dataset, its loaded state and the result frames unchanged.   *)
C26_ComputeNeedsUpload ==
    [][(pc = "mainloop" /\ ~Uploaded /\ log' # log /\ args'.fn \in Buttons) =>
          /\ log' = Append(log, Event("warning", log'[Len(log')].fn, <<>>))
          /\ UNCHANGED <<df, status, bills>>]_vars

(* ---- the versions against each other ---- *)

(* A limit as the number or None it stands for, and as a v3 entry text. *)
Numeric(limit) == IF Unlimited(limit) THEN None ELSE Num(LimitValue(limit))

NumericLimits == [i \in 1..Len(args.limits) |-> Numeric(args.limits[i])]

TextLimits == [i \in 1..Len(args.limits) |-> AsText(NumericLimits[i])]

(* Strictly ascending positive limits, the last tier unlimited, as many   *)
(* rates as limits.                                                        *)
WellFormedTiers ==
    /\ EqualLengths
    /\ Len(args.limits) >= 1
    /\ Unlimited(args.limits[Len(args.limits)])
    /\ Ascending(SubSeq(NumericLimits, 1, Len(args.limits) - 1))

TierCostsOf(v, bill) ==
    IF v = "v1"
    THEN [i \in 1..Len(bill.breakdown) |-> bill.breakdown[i].cost]
    ELSE [i \in 1..(Len(bill.breakdown) - 1) |-> bill.breakdown[i].v]

AgreesWith(v, limits) ==
    LET bill == tieredTariff(v, df, limits, args.rates, args.fixedFee)
    IN /\ bill.totalBill = ret.totalBill
       /\ TierCostsOf(v, bill) = TierCosts

(* C27: for strictly ascending positive limits with the last tier         *)
(* unlimited and as many rates as limits, tieredTariff of v1, v2 and v3    *)
(* (limits as numbers or as entry texts) return the same totalBill and the *)
(* same cost per tier.                                                      *)
C27_VersionsAgree ==
    (Done("tier") /\ WellFormedTiers) =>
        /\ \A v \in Versions : AgreesWith(v, NumericLimits)
        /\ AgreesWith("v3", TextLimits)

C27_Witness ==
    /\ Done("tier")
    /\ args.ver = "v2"
    /\ args.limits = <<Num(100), Num(300), None>>
    /\ args.rates = <<20, 30, 40>>
    /\ TotalUsage(df) = 250
    /\ TierCosts = <<100 * 20, 150 * 30>>
    /\ TierCostsOf("v1", tieredTariff("v1", df, args.limits, args.rates, args.fixedFee))
          = <<100 * 20, 150 * 30>>
    /\ tieredTariff("v3", df, TextLimits, args.rates, args.fixedFee).totalBill
          = 100 * 20 + 150 * 30 + args.fixedFee

(* The width of the band of tier i: its limit less the limit before it. *)
BandWidth(i) ==
    NumericLimits[i].num - (IF i = 1 THEN 0 ELSE NumericLimits[i - 1].num)

OneTier(v) == IF v = "v3" THEN {<<None>>, <<Str(<<>>)>>} ELSE {<<None>>}

DefaultOnly(rate) ==
    <<[k |-> "Shoulder", v |-> [default |-> TRUE, start |-> 0, end |-> 0, rate |-> rate]]>>

(* C29: tieredTariff with a single unlimited tier at rate r and fee f, and *)
(* touTariff with only a default window at rate r and fee f, return the    *)
(* same totalBill as flatRateTariff(series, r, f).                          *)
C29_DegenerateEqualsFlat ==
    Done("flat") =>
        \A v \in Versions :
            /\ \A limits \in OneTier(v) :
                  tieredTariff(v, df, limits, <<args.rate>>, args.fixedFee).totalBill
                     = ret.totalBill
            /\ touTariff(v, df, DefaultOnly(args.rate), args.fixedFee).totalBill
                  = ret.totalBill

C29_Witness ==
    /\ Done("flat")
    /\ args.ver = "v1"
    /\ Len(df) = MaxReadings
    /\ TotalUsage(df) = MaxReadings * MaxKWh
    /\ args.rate = MaxRate
    /\ args.fixedFee = MaxFee
    /\ ret.totalBill = MaxReadings * MaxKWh * MaxRate + MaxFee
    /\ touTariff("v3", df, DefaultOnly(MaxRate), MaxFee).totalBill = ret.totalBill
    /\ tieredTariff("v2", df, <<None>>, <<MaxRate>>, MaxFee).totalBill = ret.totalBill

====
